---- MODULE Spec2Model ----
(***************************************************************************)
(* mail-cron: the polling pipeline of src/utils/logger.js (the server part  *)
(* of that file), with the storage helper (helpers/database), the          *)
(* messaging helper (helpers/bot), the fetch adapters (helpers/gmail,       *)
(* helpers/outlook) and the classifier (helpers/classifier).               *)
(*                                                                         *)
(* Time is an integer number of minutes.  Date.now() is the variable now;  *)
(* it advances between invocations of GET /cron/check and may also stay    *)
(* the same (two reads of the clock can return the same value).            *)
(***************************************************************************)
EXTENDS Integers, Sequences, FiniteSets, TLC

\* ------------------------------------------------------------------ bounds
MaxRuns == 2
MaxFaults == 2
\* The minutes a provider sweep takes from its fetch to its checkpoint, when
\* the sweep is observed to take time.
SweepMinutes == 5
\* The OAuth states initiateOAuth issues and the callback requests received.
MaxStates == 2
MaxCallbacks == 3
\* The clock does not move during a sweep beyond this instant.
MaxSlowClock == 5
\* How many nested calls of parseAIResponse the call stack holds.
StackFrames == 4

\* ------------------------------------------------------- program constants
DEFAULT_LOOKBACK_MINUTES == 30
FAILURE_ALERT_COOLDOWN_MIN == 120
AI_THRESHOLD_LOW == 3
AI_THRESHOLD_HIGH == 8

Max(a, b) == IF a >= b THEN a ELSE b
Min(a, b) == IF a <= b THEN a ELSE b

\* ------------------------------------------------------------- classifier
CatOther == "OTHER"

CATEGORIES == {"PLACEMENT_DRIVE", "INTERVIEW", "ASSESSMENT", "SHORTLISTED", CatOther}

\* Object.entries(KEYWORD_SCORES) enumerates the categories in this order.
CategoryOrder == <<"PLACEMENT_DRIVE", "INTERVIEW", "ASSESSMENT", "SHORTLISTED">>

\* A keyword is a sequence of words; a text is a sequence of lower-cased words.
KEYWORD_SCORES ==
  [ PLACEMENT_DRIVE |->
      [ high   |-> << <<"placement","drive">>, <<"campus","placement">>,
                      <<"placement","season">>, <<"placement","opportunity">>,
                      <<"campus","recruitment">>, <<"recruitment","drive">>,
                      <<"pool","campus">>, <<"off","campus","placement">> >>,
        medium |-> << <<"placement">>, <<"campus","hiring">>, <<"fresher","hiring">>,
                      <<"batch","hiring">>, <<"graduate","hiring">> >>,
        low    |-> << <<"career","opportunity">>, <<"job","opportunity">>, <<"hiring">> >> ],
    INTERVIEW |->
      [ high   |-> << <<"interview","schedule">>, <<"interview","invitation">>,
                      <<"technical","interview">>, <<"hr","interview">>,
                      <<"interview","round">>, <<"interview","slot">>,
                      <<"interview","call">>, <<"interview","date">>,
                      <<"join","the","interview">>, <<"interview","link">>,
                      <<"zoom","interview">>, <<"teams","interview">> >>,
        medium |-> << <<"interview">>, <<"interviewing">>, <<"face","to","face">>,
                      <<"video","call">>, <<"screening","call">> >>,
        low    |-> << <<"discussion">>, <<"meeting","scheduled">> >> ],
    ASSESSMENT |->
      [ high   |-> << <<"online","assessment">>, <<"coding","test">>,
                      <<"aptitude","test">>, <<"technical","test">>,
                      <<"online","test">>, <<"assessment","link">>,
                      <<"test","invitation">>, <<"hackerrank">>, <<"hackerearth">>,
                      <<"codility">>, <<"mettl">>, <<"amcat">>, <<"cocubes">>,
                      <<"assessment","invitation">> >>,
        medium |-> << <<"assessment">>, <<"test","scheduled">>, <<"exam","link">>,
                      <<"proctored","test">>, <<"coding","challenge">> >>,
        low    |-> << <<"test">>, <<"quiz">>, <<"evaluation">> >> ],
    SHORTLISTED |->
      [ high   |-> << <<"you","have","been","shortlisted">>, <<"shortlisted","for">>,
                      <<"congratulations","you","are","shortlisted">>,
                      <<"selected","for","next","round">>, <<"cleared","the","round">>,
                      <<"qualified","for">>, <<"you","are","selected">>,
                      <<"offer","letter">>, <<"job","offer">>,
                      <<"we","are","pleased","to","offer">> >>,
        medium |-> << <<"shortlisted">>, <<"selected">>, <<"congratulations">>,
                      <<"next","round">>, <<"moved","forward">> >>,
        low    |-> << <<"next","steps">>, <<"proceeding">>, <<"qualifying">> >> ] ]

NEGATIVE_KEYWORDS ==
  << <<"unsubscribe">>, <<"newsletter">>, <<"marketing">>, <<"promotional">>,
     <<"sale">>, <<"discount">>, <<"webinar","registration">>,
     <<"course","enrollment">>, <<"learn","more">>, <<"free","trial">> >>

\* String.includes is a substring test on characters.  On single-spaced words
\* a word of the text contains a keyword word when they are equal or when the
\* pair is listed here (text word, keyword word, where the keyword word sits).
WordInWord ==
  { <<"interviewing", "interview", "prefix">>,
    <<"interviews", "interview", "prefix">>,
    <<"placements", "placement", "prefix">>,
    <<"contest", "test", "suffix">>,
    <<"wholesale", "sale", "suffix">>,
    <<"rehiring", "hiring", "suffix">> }

StartsWith(w, k) == w = k \/ <<w, k, "prefix">> \in WordInWord
EndsWith(w, k) == w = k \/ <<w, k, "suffix">> \in WordInWord
Contains(w, k) == w = k \/ \E pos \in {"prefix", "suffix", "infix"} : <<w, k, pos>> \in WordInWord

\* text.includes(kw): the keyword occurs at some position of the text.
Includes(text, kw) ==
  \E i \in 1..(Len(text) - Len(kw) + 1) :
    IF Len(kw) = 1
      THEN Contains(text[i], kw[1])
      ELSE \A j \in 1..Len(kw) :
             CASE j = 1 -> EndsWith(text[i], kw[1])
               [] j = Len(kw) -> StartsWith(text[i + j - 1], kw[j])
               [] OTHER -> text[i + j - 1] = kw[j]

\* Senders are [local, domain]; the trusted patterns are role mailboxes
\* (a local part ending in the role name, then '@') and job-board domains.
TrustedRoles == {"hr", "careers", "recruitment", "talent", "hiring"}
TrustedDomains == {"naukri.com", "linkedin.com", "monster.com", "indeed.com",
                   "internshala.com", "hackerrank.com", "hackerearth.com",
                   "codility.com", "mettl.com"}

TRUSTED_SENDER_PATTERNS(from) ==
  \/ \E role \in TrustedRoles : EndsWith(from.local, role)
  \/ from.domain \in TrustedDomains

MatchedIn(text, kws) == SelectSeq(kws, LAMBDA kw : Includes(text, kw))

ScanText(email) == email.subject \o email.snippet \o email.body

NegativeScore(text) == 2 * Len(MatchedIn(text, NEGATIVE_KEYWORDS))

\* No bonus for any sender.
SenderBonus_none(from) == 0

SenderBonus(from) == IF TRUSTED_SENDER_PATTERNS(from) THEN 3 ELSE 0

MatchedKeywords(text, category) ==
  MatchedIn(text, KEYWORD_SCORES[category].high)
    \o MatchedIn(text, KEYWORD_SCORES[category].medium)
    \o MatchedIn(text, KEYWORD_SCORES[category].low)

\* The score of a category without the floor at 0.
CategoryScore_unfloored(email, category) ==
  LET text == ScanText(email)
  IN  3 * Len(MatchedIn(text, KEYWORD_SCORES[category].high))
        + 2 * Len(MatchedIn(text, KEYWORD_SCORES[category].medium))
        + 1 * Len(MatchedIn(text, KEYWORD_SCORES[category].low))
        + SenderBonus(email.from) - NegativeScore(text)

CategoryScore(email, category) ==
  LET text == ScanText(email)
      raw == 3 * Len(MatchedIn(text, KEYWORD_SCORES[category].high))
           + 2 * Len(MatchedIn(text, KEYWORD_SCORES[category].medium))
           + 1 * Len(MatchedIn(text, KEYWORD_SCORES[category].low))
           + SenderBonus(email.from)
  IN  Max(0, raw - NegativeScore(text))

\* The loop over the categories where a later category replaces the current
\* maximum with an equal score too.
RECURSIVE MaxUpTo_lastWins(_, _)
MaxUpTo_lastWins(email, n) ==
  IF n = 0 THEN [category |-> CatOther, score |-> 0]
  ELSE LET prev == MaxUpTo_lastWins(email, n - 1)
           s == CategoryScore(email, CategoryOrder[n])
       IN  IF s >= prev.score /\ s > 0 THEN [category |-> CategoryOrder[n], score |-> s]
           ELSE prev

\* The loop over the categories: a later category replaces the current
\* maximum only with a strictly higher score.
RECURSIVE MaxUpTo(_, _)
MaxUpTo(email, n) ==
  IF n = 0 THEN [category |-> CatOther, score |-> 0]
  ELSE LET prev == MaxUpTo(email, n - 1)
           s == CategoryScore(email, CategoryOrder[n])
       IN  IF s > prev.score THEN [category |-> CategoryOrder[n], score |-> s]
           ELSE prev

keywordClassify(email) ==
  LET best == MaxUpTo(email, Len(CategoryOrder))
      matchedKws == IF best.category = CatOther THEN <<>>
                    ELSE MatchedKeywords(ScanText(email), best.category)
  IN  [ important |-> best.category # CatOther /\ best.score >= 2,
        category |-> best.category,
        score |-> best.score,
        reason |-> IF Len(matchedKws) > 0
                     THEN [text |-> "Matched keywords", kws |-> SubSeq(matchedKws, 1, Min(3, Len(matchedKws)))]
                     ELSE [text |-> "No strong keyword matches", kws |-> <<>>] ]

\* The confidence without the cap at 1.0.
KeywordConfidence_uncapped(score) == 10 * score

\* Confidence is held in hundredths: Math.min(score / 10, 1.0) is Min(10 * score, 100).
KeywordConfidence(score) == Min(10 * score, 100)

\* process.env.GEMINI_API_KEY is set in the modelled deployment.
GeminiConfigured == TRUE

\* What a call of aiClassify can produce: it raises (transport error, timeout,
\* empty response), or it returns the validated result of parseAIResponse.
AIError == [kind |-> "error"]
AIResult(imp, cat, conf) ==
  [kind |-> "result", important |-> imp, category |-> cat, confidence |-> conf,
   reason |-> [text |-> "AI classification", kws |-> <<>>]]
AIReplies == { AIError, AIResult(TRUE, "INTERVIEW", 80), AIResult(FALSE, CatOther, 90),
               AIResult(TRUE, CatOther, 50) }

\* The band with both thresholds inside it.
InAIBand_inclusive(score) == score >= AI_THRESHOLD_LOW /\ score <= AI_THRESHOLD_HIGH

\* The band without its lower threshold.
InAIBand_noLowerThreshold(score) == ~(score >= AI_THRESHOLD_HIGH)

\* The scores for which classifyEmail does not return the keyword result at once.
InAIBand(score) == ~(score >= AI_THRESHOLD_HIGH \/ score <= AI_THRESHOLD_LOW)

\* classifyEmail(email), with process.env.GEMINI_API_KEY set or not (apiKey)
\* and with what aiClassify does when it is called (ai): it raises, it returns
\* a validated object, or it returns a JSON primitive, whose spread
\* { ...aiResult, method: 'ai' } has no property but method.
classifyEmail(email, apiKey, ai) ==
  LET keywordResult == keywordClassify(email)
      tier1(method) == [ important |-> keywordResult.important,
                         category |-> keywordResult.category,
                         confidence |-> KeywordConfidence(keywordResult.score),
                         reason |-> keywordResult.reason,
                         method |-> method ]
  IN  IF ~InAIBand(keywordResult.score)
        THEN tier1("keyword")
      ELSE IF apiKey /\ ai.kind = "result"
        THEN [ important |-> ai.important, category |-> ai.category,
               confidence |-> ai.confidence, reason |-> ai.reason, method |-> "ai" ]
      ELSE IF apiKey /\ ai.kind = "primitive"
        THEN [ method |-> "ai" ]
      ELSE tier1("keyword_fallback")

\* TRUE when classifyEmail calls aiClassify for this message.
UsesAI(email, apiKey) == InAIBand(keywordClassify(email).score) /\ apiKey

\* ---------------------------------------------------- the AI response text
\* What the backend answers, by shape: "none" (transport error, timeout or
\* empty text), "object" (a JSON object), "array", "primitive" (a JSON number,
\* string or boolean), "null", "wrapped" (text around one JSON object),
\* "broken" (braces around text that is not JSON) and "text" (no braces).
\* The fields of an object are tokens: important is "true", "false",
\* "string" or "missing"; category is a label or "missing"; confidence is a
\* number in hundredths or not a number; reason is a string or not.
ImportantTokens == {"missing", "true", "false", "string"}
CategoryTokens == {"missing", "INTERVIEW", CatOther, "SPAM"}
ConfidenceTokens ==
  { [isNumber |-> FALSE, v |-> 0] } \cup { [isNumber |-> TRUE, v |-> n] : n \in {-10, 0, 80, 100, 150} }
ReasonTokens == { [isString |-> FALSE, text |-> ""], [isString |-> TRUE, text |-> "campus drive"] }

NoFields ==
  [ important |-> "missing", category |-> "missing",
    confidence |-> [isNumber |-> FALSE, v |-> 0], reason |-> [isString |-> FALSE, text |-> ""] ]

Raw(shape, fields) ==
  [ shape |-> shape, important |-> fields.important, category |-> fields.category,
    confidence |-> fields.confidence, reason |-> fields.reason ]

ObjectFields ==
  [ important : ImportantTokens, category : CategoryTokens,
    confidence : ConfidenceTokens, reason : ReasonTokens ]

RawResponses ==
  { Raw(shape, NoFields) : shape \in {"none", "array", "primitive", "null", "broken", "text"} }
    \cup { Raw("object", f) : f \in ObjectFields }
    \cup { Raw("wrapped", f) : f \in {g \in ObjectFields : g.reason.isString /\ g.confidence.v = 80} }

\* A validation that returns the defaults for every field as soon as one
\* field is not valid.
ValidateFields_allOrNothing(raw) ==
  IF /\ raw.important \in {"true", "false"}
     /\ raw.category \in CATEGORIES
     /\ raw.confidence.isNumber /\ raw.confidence.v >= 0 /\ raw.confidence.v <= 100
     /\ raw.reason.isString
    THEN [ kind |-> "result", important |-> raw.important = "true", category |-> raw.category,
           confidence |-> raw.confidence.v, reason |-> [text |-> raw.reason.text, kws |-> <<>>] ]
    ELSE [ kind |-> "result", important |-> FALSE, category |-> CatOther, confidence |-> 50,
           reason |-> [text |-> "AI classification", kws |-> <<>>] ]

\* parseAIResponse, the validation of the parsed object.
ValidateFields(raw) ==
  [ kind |-> "result",
    important |-> IF raw.important \in {"true", "false"} THEN raw.important = "true" ELSE FALSE,
    category |-> IF raw.category \in CATEGORIES THEN raw.category ELSE CatOther,
    confidence |-> IF raw.confidence.isNumber /\ raw.confidence.v >= 0 /\ raw.confidence.v <= 100
                     THEN raw.confidence.v ELSE 50,
    reason |-> [ text |-> IF raw.reason.isString THEN raw.reason.text ELSE "AI classification",
                 kws |-> <<>> ] ]

\* parseAIResponse, the default of the catch block.
ParseFailed ==
  [ kind |-> "result", important |-> FALSE, category |-> CatOther, confidence |-> 0,
    reason |-> [text |-> "Failed to parse AI response", kws |-> <<>>] ]

\* responseText.match(/\{[\s\S]*\}/)[0]: the text from the first to the last
\* brace.  For text around one JSON object it is the object; for braces
\* around text that is not JSON it starts and ends with a brace and is not
\* JSON, and its own match is the same text again.
Extracted(raw) ==
  IF raw.shape = "wrapped" THEN [raw EXCEPT !.shape = "object"] ELSE raw

\* parseAIResponse(responseText) called with frames left on the call stack:
\* what it returns, whether it raises instead (RangeError, no frame left),
\* and how many times JSON.parse ran in the call and the calls it made.
\* An object is validated in place; so is an array (the properties are set
\* on it).  A primitive has no properties to set and is returned as it is.
\* null raises on the first property read and text that is not JSON raises
\* in JSON.parse: the catch block calls parseAIResponse on the match when
\* there is one, and returns the default when there is none or when that
\* call raised.
RECURSIVE parseAIResponseFrom(_, _)
parseAIResponseFrom(raw, frames) ==
  IF frames = 0 THEN [raised |-> TRUE, result |-> ParseFailed, decodes |-> 0]
  ELSE CASE raw.shape \in {"object", "array"} ->
              [raised |-> FALSE, result |-> ValidateFields(raw), decodes |-> 1]
         [] raw.shape = "primitive" ->
              [raised |-> FALSE, result |-> [kind |-> "primitive"], decodes |-> 1]
         [] raw.shape \in {"wrapped", "broken"} ->
              LET inner == parseAIResponseFrom(Extracted(raw), frames - 1)
              IN  [ raised |-> FALSE,
                    result |-> IF inner.raised THEN ParseFailed ELSE inner.result,
                    decodes |-> 1 + inner.decodes ]
         [] OTHER ->
              [raised |-> FALSE, result |-> ParseFailed, decodes |-> 1]

\* parseAIResponse(responseText), called by aiClassify.
parseAIResponse(raw) == parseAIResponseFrom(raw, StackFrames).result

\* aiClassify returning the parse of whatever came back, never raising.
aiClassify_swallow(raw) == parseAIResponse(raw)

\* aiClassify(email) when the backend answers raw.
aiClassify(raw) ==
  IF raw.shape = "none" THEN AIError ELSE parseAIResponse(raw)

\* ------------------------------------------------------------ the scenario
Users == {"A", "B"}
\* The order in which User.find returns the documents.
UserOrder == <<"A", "B">>
Providers == {"gmail", "outlook"}
\* processUserEmails sweeps gmail first, then outlook.
ProviderOrder == <<"gmail", "outlook">>
Runs == {1, 2}
TickSteps == {20, 120}

\* An optional date is <<>> (null) or <<t>>.
NoDate == <<>>
DateOf(t) == <<t>>

\* The messages that can arrive, by messageId.  m1 is the interview
\* invitation of the spec's example; m2 scores in the AI band and is filed
\* in the spam folder.
Content(m) ==
  CASE m = "m1" -> [ subject |-> <<"interview", "schedule", "round", "2">>,
                     from |-> [local |-> "hr", domain |-> "acme-corp.com"],
                     snippet |-> <<"dear", "candidate">>,
                     body |-> <<"technical", "interview", "and", "zoom", "interview">>,
                     isSpam |-> FALSE ]
    [] m = "m2" -> [ subject |-> <<"campus", "placement", "news">>,
                     from |-> [local |-> "john", domain |-> "college.edu"],
                     snippet |-> <<"see", "details">>,
                     body |-> <<"register", "today">>,
                     isSpam |-> TRUE ]

\* The order in which an adapter lists the messages of a folder.
MsgOrder == <<"m1", "m2">>
MsgIds == {"m1", "m2"}

\* classifyEmail on the messages of the scenario, for every reply of the AI backend.
Classified == [m \in MsgIds, ai \in AIReplies |-> classifyEmail(Content(m), GeminiConfigured, ai)]

\* The messages classifyEmail is called on by itself: a subject from a sender.
\* The scores run from 0 over both thresholds to 14; some subjects match
\* negative keywords only, one matches two categories with the same weight.
ProbeSubjects ==
  { <<"hello">>, <<"offer", "letter">>, <<"coding", "test">>, <<"placement", "drive">>,
    <<"placement", "drive", "newsletter">>, <<"interview", "schedule", "round", "2">>,
    <<"hiring">>, <<"newsletter">>, <<"newsletter", "sale">>, <<"selected", "video", "call">> }
ProbeSenders ==
  { [local |-> "john", domain |-> "college.edu"], [local |-> "hr", domain |-> "acme-corp.com"] }
ProbeEmail(subject, from) ==
  [ subject |-> subject, from |-> from, snippet |-> <<"dear", "candidate">>,
    body |-> IF subject[1] = "interview"
               THEN <<"technical", "interview", "and", "zoom", "interview">>
               ELSE <<"see", "details">>,
    isSpam |-> FALSE ]
ProbeEmails == { ProbeEmail(subject, from) : subject \in ProbeSubjects, from \in ProbeSenders }

\* No call of classifyEmail by itself.
NoProbe ==
  [ email |-> ProbeEmail(<<"hello">>, [local |-> "john", domain |-> "college.edu"]),
    apiKey |-> FALSE, raw |-> Raw("none", NoFields), done |-> FALSE,
    score |-> 0, called |-> FALSE, result |-> <<>>,
    keyword |-> <<>>, categoryScores |-> <<>>, ai |-> <<>>, decodes |-> 0 ]

\* (recipient, provider, messageId): the mailboxes a message can arrive in.
\* m1 has the same provider and messageId for A and for B.
Slots == { <<"A", "gmail", "m1">>, <<"B", "gmail", "m1">>, <<"A", "gmail", "m2">> }

\* The provider connections of the users when the model starts.
Connected == [A |-> {"gmail", "outlook"}, B |-> {"gmail"}]

VARIABLES
  now,          \* Date.now(), minutes
  arrived,      \* mailboxes at the providers: slot -> receivedAt or NoDate
  users,        \* the User collection: chatId -> document
  emails,       \* the Email collection: a set of documents
  run,          \* the invocations of GET /cron/check: run -> its local state
  runsStarted,  \* how many invocations have started
  faults,       \* how many calls to the collaborators have failed
  hist,         \* per slot: confirmed deliveries and the outcome of the sweeps
  alertsSent,   \* per (recipient, provider): the instants of the delivered outage notices
  verdicts,     \* classifyEmail per message and AI reply; it does not change
  budget,       \* how many calls to the collaborators can fail; it does not change
  probe,        \* one call of classifyEmail: its inputs and what it returned
  fetchLog,     \* per (recipient, provider): when the last completed sweep issued its fetch
  oauth         \* the Session collection, the OAuth states issued and the callbacks in progress

vars == <<now, arrived, users, emails, run, runsStarted, faults, hist, alertsSent, verdicts,
          budget, probe, fetchLog, oauth>>

\* ------------------------------------------------------- storage documents
\* The requests to /oauth/<provider>/callback that can be in progress.
Callbacks == {1, 2}

\* oauthState: null in a session.
NoState == 0

\* A callback handler that is not running.
IdleCallback ==
  [ pc |-> "idle", provider |-> "gmail", state |-> NoState, chatId |-> "A", response |-> "none" ]

\* No session holds a state, nothing was issued, no callback runs.  stored
\* counts, per state, the credential updates made by callbacks carrying it.
NoOAuth ==
  [ session |-> [u \in Users |-> [oauthState |-> NoState]],
    issued |-> 0,
    requests |-> 0,
    stored |-> [st \in 1..MaxStates |-> 0],
    cb |-> [c \in Callbacks |-> IdleCallback] ]

NewUser(u) ==
  [ telegramChatId |-> u,
    isActive |-> TRUE,
    providers |-> [p \in Providers |->
                     [ enabled |-> p \in Connected[u], refreshToken |-> p \in Connected[u],
                       lastError |-> "none", lastErrorAt |-> NoDate ]],
    settings |-> [ notificationsEnabled |-> TRUE,
                   categories |-> [c \in CATEGORIES \ {CatOther} |-> TRUE] ],
    lastChecked |-> [p \in Providers |-> NoDate],
    lastFailureAlert |-> [p \in Providers |-> NoDate] ]

\* uniqueId = `${email.provider}_${email.messageId}`
UniqueId(p, m) == <<p, m>>

\* db.getActiveUsers: isActive and at least one provider enabled.
getActiveUsers(coll) ==
  SelectSeq([i \in 1..Len(UserOrder) |-> coll[UserOrder[i]]],
            LAMBDA d : d.isActive /\ \E p \in Providers : d.providers[p].enabled)

\* The ledger check that looks for the records not yet notified.
isEmailNotified_unsaved(coll, chatId, p, m) ==
  \E e \in coll : e.telegramChatId = chatId /\ e.provider = p /\ e.messageId = m /\ ~e.notified

\* The ledger check without the recipient in its filter.
isEmailNotified_anyRecipient(coll, chatId, p, m) ==
  \E e \in coll : e.provider = p /\ e.messageId = m /\ e.notified

\* db.isEmailNotified
isEmailNotified(coll, chatId, p, m) ==
  \E e \in coll : e.telegramChatId = chatId /\ e.provider = p /\ e.messageId = m /\ e.notified

\* db.saveEmail: findOneAndUpdate({uniqueId}, {$setOnInsert ..., $set ...}, {upsert: true})
saveEmail(coll, user, p, m, classification, t) ==
  LET uid == UniqueId(p, m)
      old == {e \in coll : e.uniqueId = uid}
  IN  IF old # {}
        THEN (coll \ old) \cup
             { [e EXCEPT !.classification = classification, !.notified = TRUE,
                         !.notifiedAt = DateOf(t)] : e \in old }
        ELSE coll \cup
             { [ telegramChatId |-> user.telegramChatId, provider |-> p, messageId |-> m,
                 uniqueId |-> uid, classification |-> classification,
                 notified |-> TRUE, notifiedAt |-> DateOf(t) ] }

\* The checkpoint of every provider of the user written at once.
updateLastChecked_allProviders(coll, chatId, p, t) ==
  [coll EXCEPT ![chatId].lastChecked = [q \in Providers |-> DateOf(t)]]

\* The checkpoint write that also clears the pair's failure-alert stamp.
updateLastChecked_clearsAlert(coll, chatId, p, t) ==
  [coll EXCEPT ![chatId].lastChecked[p] = DateOf(t), ![chatId].lastFailureAlert[p] = NoDate]

\* db.updateLastChecked
updateLastChecked(coll, chatId, p, t) ==
  [coll EXCEPT ![chatId].lastChecked[p] = DateOf(t)]

\* db.recordProviderError
recordProviderError(coll, chatId, p, error, t) ==
  [coll EXCEPT ![chatId].providers[p].lastError = error,
               ![chatId].providers[p].lastErrorAt = DateOf(t)]

\* db.canSendFailureAlert
canSendFailureAlert(coll, chatId, p, t) ==
  LET lastAlert == coll[chatId].lastFailureAlert[p]
  IN  IF lastAlert = NoDate THEN TRUE
      ELSE (t - lastAlert[1]) >= FAILURE_ALERT_COOLDOWN_MIN

\* db.recordFailureAlert
recordFailureAlert(coll, chatId, p, t) ==
  [coll EXCEPT ![chatId].lastFailureAlert[p] = DateOf(t)]

\* ------------------------------------------------------------- the sweep
\* The lower bound without the clamp to the lookback window.
getSinceTimestamp_unclamped(user, p, t) ==
  LET lastChecked == user.lastChecked[p]
  IN  IF lastChecked # NoDate
        THEN lastChecked[1]
        ELSE t - DEFAULT_LOOKBACK_MINUTES

\* getSinceTimestamp(user, provider), with Date.now() = t
getSinceTimestamp(user, p, t) ==
  LET lastChecked == user.lastChecked[p]
  IN  IF lastChecked # NoDate
        THEN Max(lastChecked[1], t - DEFAULT_LOOKBACK_MINUTES)
        ELSE t - DEFAULT_LOOKBACK_MINUTES

\* One folder request of an adapter (fetchFromLabel / fetchFromFolder): the
\* messages of the folder received at or after the lower bound.
FetchFolder(box, u, p, since, spam) ==
  SelectSeq(MsgOrder, LAMBDA m : /\ <<u, p, m>> \in Slots
                                 /\ box[<<u, p, m>>] # NoDate
                                 /\ box[<<u, p, m>>][1] >= since
                                 /\ Content(m).isSpam = spam)

\* gmail.fetchEmails / outlook.fetchEmails after authentication succeeded:
\* a folder request that fails is logged and contributes nothing.
fetchEmails(box, u, p, since, inboxOk, spamOk) ==
  (IF inboxOk THEN FetchFolder(box, u, p, since, FALSE) ELSE <<>>)
    \o (IF spamOk THEN FetchFolder(box, u, p, since, TRUE) ELSE <<>>)

\* Every category taken as enabled.
categoryEnabled_always(user, category) == TRUE

\* user.settings?.categories?.[classification.category] !== false
categoryEnabled(user, category) ==
  IF category \in DOMAIN user.settings.categories
    THEN user.settings.categories[category]
    ELSE TRUE

ZeroCounts == [emailsScanned |-> 0, importantFound |-> 0, notificationsSent |-> 0]

\* The local variable classification before it is assigned.
NoClassification ==
  [ important |-> FALSE, category |-> CatOther, confidence |-> 0,
    reason |-> [text |-> "unset", kws |-> <<>>], method |-> "unset" ]

EmptySummary ==
  [ usersProcessed |-> 0, emailsScanned |-> 0, importantFound |-> 0,
    notificationsSent |-> 0, failures |-> 0, userResults |-> <<>>, status |-> "none" ]

IdleRun ==
  [ pc |-> "idle", queue |-> <<>>, user |-> NewUser("A"), pidx |-> 1,
    since |-> 0, fetchedAt |-> 0, batch |-> <<>>, idx |-> 1,
    classification |-> NoClassification, error |-> "none",
    providerResult |-> ZeroCounts,
    result |-> [emailsScanned |-> 0, importantFound |-> 0, notificationsSent |-> 0, errors |-> <<>>],
    summary |-> EmptySummary,
    raised |-> 0,     \* how many times the catch of the loop over the users ran
    confirmed |-> 0 ] \* how many notifications Telegram accepted in this invocation

Init ==
  /\ now = 0
  /\ arrived = [k \in Slots |-> NoDate]
  /\ users = [u \in Users |-> NewUser(u)]
  /\ emails = {}
  /\ run = [r \in Runs |-> IdleRun]
  /\ runsStarted = 0
  /\ faults = 0
  /\ hist = [k \in Slots |-> [delivered |-> 0, last |-> "absent", cur |-> "absent"]]
  /\ alertsSent = [u \in Users |-> [p \in Providers |-> {}]]
  /\ verdicts = Classified
  /\ budget = MaxFaults
  /\ probe = NoProbe
  /\ fetchLog = [u \in Users |-> [p \in Providers |-> NoDate]]
  /\ oauth = NoOAuth

\* ------------------------------------------------------------ environment
\* The environment (the clock, the mailboxes) is observed to move between
\* invocations: while an invocation runs, its reads of the clock return the
\* same instant.
EnvPoint == \A r \in Runs : run[r].pc = "idle"

\* The time that has passed when an invocation starts.  Instant 0 is the
\* instant of the first arrival or invocation.
Elapsed ==
  IF EnvPoint /\ (runsStarted > 0 \/ \E k \in Slots : arrived[k] # NoDate)
    THEN {0} \cup TickSteps
    ELSE {0}

\* A message is received in a mailbox; receivedAt is the current instant.
Arrive ==
  /\ EnvPoint
  /\ \E k \in Slots : arrived[k] = NoDate /\ arrived' = [arrived EXCEPT ![k] = DateOf(now)]
  /\ UNCHANGED <<verdicts, budget, probe, fetchLog, oauth, now, users, emails, run, runsStarted, faults, hist, alertsSent>>

\* The calls to the collaborators can fail: a storage call raises, a request
\* of a fetch adapter fails, Telegram refuses a message.  At most budget
\* calls fail (MaxFaults when one invocation runs at a time).
Failing(n) ==
  /\ faults + n <= budget
  /\ faults' = faults + n

\* A storage call returns (ok) or raises.
StorageCall(ok) == Failing(IF ok THEN 0 ELSE 1)

\* A fetch with n failing requests (the authentication or a folder request).
AdapterCall(n) == Failing(n)

\* Telegram accepts a message (sent) or the send fails.
TelegramCall(sent) == Failing(IF sent THEN 0 ELSE 1)

\* ------------------------------------------------- GET /cron/check, by step
CurUser(r) == run[r].user.telegramChatId
CurProvider(r) == ProviderOrder[run[r].pidx]
CurMsg(r) == run[r].batch[run[r].idx]
CurSlot(r) == <<CurUser(r), CurProvider(r), CurMsg(r)>>

\* The for-loop over the fetched emails moves on, or the loop ends.
NextEmail(rr) ==
  IF rr.idx < Len(rr.batch)
    THEN [rr EXCEPT !.idx = @ + 1, !.pc = "check", !.classification = NoClassification]
    ELSE [rr EXCEPT !.pc = "advance", !.classification = NoClassification]

\* processUserEmails goes on with the next provider; the locals of
\* processProvider are gone.
NextProvider(rr) ==
  [rr EXCEPT !.pidx = @ + 1, !.pc = "provider", !.batch = <<>>, !.idx = 1,
             !.since = 0, !.fetchedAt = 0, !.error = "none",
             !.classification = NoClassification, !.providerResult = ZeroCounts]

\* The handler starts, some time after the last one: db.getActiveUsers()
\* returns the users or raises (response 500).
StartRun(r) ==
  /\ run[r].pc = "idle"
  /\ runsStarted < MaxRuns
  /\ runsStarted' = runsStarted + 1
  /\ \E d \in Elapsed : now' = now + d
  /\ \E ok \in BOOLEAN :
       /\ StorageCall(ok)
       /\ run' = [run EXCEPT ![r] =
                    IF ok THEN [IdleRun EXCEPT !.pc = "users", !.queue = getActiveUsers(users),
                                               !.summary.status = "running"]
                    ELSE IdleRun]
  /\ UNCHANGED <<verdicts, budget, probe, fetchLog, oauth, arrived, users, emails, hist, alertsSent>>

\* The loop over the users is over: res.json(summary).
FinishRun(r) ==
  /\ run[r].pc = "users"
  /\ run[r].queue = <<>>
  /\ run' = [run EXCEPT ![r] = IdleRun]
  /\ UNCHANGED <<verdicts, budget, probe, fetchLog, oauth, now, arrived, users, emails, runsStarted, faults, hist, alertsSent>>

\* summary whose emailsScanned is the count of the last user.
Aggregate_scannedOfLastUser(summary, user, result) ==
  [summary EXCEPT
     !.usersProcessed = @ + 1,
     !.emailsScanned = result.emailsScanned,
     !.importantFound = @ + result.importantFound,
     !.notificationsSent = @ + result.notificationsSent,
     !.failures = @ + Len(result.errors),
     !.userResults = Append(@, [ chatId |-> user.telegramChatId,
                                 emailsScanned |-> result.emailsScanned,
                                 importantFound |-> result.importantFound,
                                 notificationsSent |-> result.notificationsSent,
                                 errors |-> result.errors ])]

\* summary with at most one failure counted per user.
Aggregate_oneFailurePerUser(summary, user, result) ==
  [summary EXCEPT
     !.usersProcessed = @ + 1,
     !.emailsScanned = @ + result.emailsScanned,
     !.importantFound = @ + result.importantFound,
     !.notificationsSent = @ + result.notificationsSent,
     !.failures = @ + (IF Len(result.errors) > 0 THEN 1 ELSE 0),
     !.userResults = Append(@, [ chatId |-> user.telegramChatId,
                                 emailsScanned |-> result.emailsScanned,
                                 importantFound |-> result.importantFound,
                                 notificationsSent |-> result.notificationsSent,
                                 errors |-> result.errors ])]

\* summary after processUserEmails(user) returned result
Aggregate(summary, user, result) ==
  [summary EXCEPT
     !.usersProcessed = @ + 1,
     !.emailsScanned = @ + result.emailsScanned,
     !.importantFound = @ + result.importantFound,
     !.notificationsSent = @ + result.notificationsSent,
     !.failures = @ + Len(result.errors),
     !.userResults = Append(@, [ chatId |-> user.telegramChatId,
                                 emailsScanned |-> result.emailsScanned,
                                 importantFound |-> result.importantFound,
                                 notificationsSent |-> result.notificationsSent,
                                 errors |-> result.errors ])]

ZeroResult == [emailsScanned |-> 0, importantFound |-> 0, notificationsSent |-> 0, errors |-> <<>>]

\* processUserEmails(user) starts for the next user of the list; a user whose
\* notifications are paused returns the empty result at once.
BeginUser(r) ==
  /\ run[r].pc = "users"
  /\ run[r].queue # <<>>
  /\ LET user == Head(run[r].queue)
     IN  run' = [run EXCEPT ![r] =
                   IF ~user.settings.notificationsEnabled
                     THEN [@ EXCEPT !.queue = Tail(@), !.user = user,
                                    !.summary = Aggregate(@, user, ZeroResult)]
                     ELSE [@ EXCEPT !.queue = Tail(@), !.user = user, !.pidx = 1,
                                    !.result = ZeroResult, !.pc = "provider"]]
  /\ UNCHANGED <<verdicts, budget, probe, fetchLog, oauth, now, arrived, users, emails, runsStarted, faults, hist, alertsSent>>

\* processUserEmails returned: the orchestrator adds the result to the summary.
EndUser(r) ==
  /\ run[r].pc = "provider"
  /\ run[r].pidx > Len(ProviderOrder)
  /\ run' = [run EXCEPT ![r].pc = "users", ![r].pidx = 1, ![r].result = ZeroResult,
                        ![r].summary = Aggregate(@, run[r].user, run[r].result)]
  /\ UNCHANGED <<verdicts, budget, probe, fetchLog, oauth, now, arrived, users, emails, runsStarted, faults, hist, alertsSent>>

ProviderUsable(user, p) == user.providers[p].enabled /\ user.providers[p].refreshToken

\* The provider is not enabled for the user: processUserEmails passes it.
SkipProvider(r) ==
  /\ run[r].pc = "provider"
  /\ run[r].pidx <= Len(ProviderOrder)
  /\ ~ProviderUsable(run[r].user, CurProvider(r))
  /\ run' = [run EXCEPT ![r].pidx = @ + 1]
  /\ UNCHANGED <<verdicts, budget, probe, fetchLog, oauth, now, arrived, users, emails, runsStarted, faults, hist, alertsSent>>

\* A sweep of (u, p) starts: the outcome of the previous sweep becomes last.
SweepStarts(h, u, p, batch) ==
  [k \in Slots |->
     IF k[1] = u /\ k[2] = p
       THEN [h[k] EXCEPT !.last = h[k].cur,
                         !.cur = IF \E i \in DOMAIN batch : batch[i] = k[3]
                                   THEN "pending" ELSE "absent"]
       ELSE h[k]]

\* processProvider up to the fetch, when the adapter returns a list.
FetchOk(r) ==
  /\ run[r].pc = "provider"
  /\ run[r].pidx <= Len(ProviderOrder)
  /\ ProviderUsable(run[r].user, CurProvider(r))
  /\ \E inboxOk, spamOk \in BOOLEAN :
       LET sinceTimestamp == getSinceTimestamp(run[r].user, CurProvider(r), now)
           fetched == fetchEmails(arrived, CurUser(r), CurProvider(r), sinceTimestamp, inboxOk, spamOk)
       IN  /\ run' = [run EXCEPT ![r].since = sinceTimestamp, ![r].fetchedAt = now,
                                 ![r].batch = fetched, ![r].idx = 1,
                                 ![r].providerResult = [ZeroCounts EXCEPT !.emailsScanned = Len(fetched)],
                                 ![r].pc = IF fetched = <<>> THEN "advance" ELSE "check"]
           /\ hist' = SweepStarts(hist, CurUser(r), CurProvider(r), fetched)
           /\ AdapterCall((IF inboxOk THEN 0 ELSE 1) + (IF spamOk THEN 0 ELSE 1))
  /\ UNCHANGED <<verdicts, budget, probe, fetchLog, oauth, now, arrived, users, emails, runsStarted, alertsSent>>

\* The adapter raises and the checkpoint is written all the same.
FetchRaise_finally(r) ==
  /\ run[r].pc = "provider"
  /\ run[r].pidx <= Len(ProviderOrder)
  /\ ProviderUsable(run[r].user, CurProvider(r))
  /\ run' = [run EXCEPT ![r].since = getSinceTimestamp(run[r].user, CurProvider(r), now),
                        ![r].fetchedAt = now,
                        ![r].error = "fetch failed",
                        ![r].result.errors = Append(@, [provider |-> CurProvider(r), error |-> "fetch failed"]),
                        ![r].pc = "failure"]
  /\ hist' = SweepStarts(hist, CurUser(r), CurProvider(r), <<>>)
  /\ users' = updateLastChecked(users, CurUser(r), CurProvider(r), now)
  /\ AdapterCall(1)
  /\ UNCHANGED <<verdicts, budget, probe, fetchLog, oauth, now, arrived, emails, runsStarted, alertsSent>>

\* processProvider when the adapter raises (authentication failed): the
\* exception reaches the catch of processUserEmails.
FetchRaise(r) ==
  /\ run[r].pc = "provider"
  /\ run[r].pidx <= Len(ProviderOrder)
  /\ ProviderUsable(run[r].user, CurProvider(r))
  /\ run' = [run EXCEPT ![r].since = getSinceTimestamp(run[r].user, CurProvider(r), now),
                        ![r].fetchedAt = now,
                        ![r].error = "fetch failed",
                        ![r].result.errors = Append(@, [provider |-> CurProvider(r), error |-> "fetch failed"]),
                        ![r].pc = "failure"]
  /\ hist' = SweepStarts(hist, CurUser(r), CurProvider(r), <<>>)
  /\ AdapterCall(1)
  /\ UNCHANGED <<verdicts, budget, probe, fetchLog, oauth, now, arrived, users, emails, runsStarted, alertsSent>>

\* db.isEmailNotified raises and nothing inside the loop catches it.
LedgerCheckRaises_uncaught(r) ==
  /\ run[r].pc = "check"
  /\ StorageCall(FALSE)
  /\ run' = [run EXCEPT ![r].error = "storage failed",
                        ![r].result.errors = Append(@, [provider |-> CurProvider(r), error |-> "storage failed"]),
                        ![r].pc = "failure"]
  /\ hist' = [hist EXCEPT ![CurSlot(r)].cur = "checkfail"]
  /\ UNCHANGED <<verdicts, budget, probe, fetchLog, oauth, now, arrived, users, emails, runsStarted, alertsSent>>

\* db.isEmailNotified raises: the catch inside the loop, next email.
LedgerCheckRaises(r) ==
  /\ run[r].pc = "check"
  /\ StorageCall(FALSE)
  /\ run' = [run EXCEPT ![r] = NextEmail(@)]
  /\ hist' = [hist EXCEPT ![CurSlot(r)].cur = "checkfail"]
  /\ UNCHANGED <<verdicts, budget, probe, fetchLog, oauth, now, arrived, users, emails, runsStarted, alertsSent>>

\* The email is already notified: continue.
SkipNotified(r) ==
  /\ run[r].pc = "check"
  /\ isEmailNotified(emails, CurUser(r), CurProvider(r), CurMsg(r))
  /\ run' = [run EXCEPT ![r] = NextEmail(@)]
  /\ hist' = [hist EXCEPT ![CurSlot(r)].cur = "skipped"]
  /\ UNCHANGED <<verdicts, budget, probe, fetchLog, oauth, now, arrived, users, emails, runsStarted, faults, alertsSent>>

\* The email is not notified: classifier.classifyEmail, then the test
\* classification.important && categoryEnabled.
Classify(r) ==
  /\ run[r].pc = "check"
  /\ ~isEmailNotified(emails, CurUser(r), CurProvider(r), CurMsg(r))
  /\ \E ai \in AIReplies :
       LET classification == verdicts[CurMsg(r), ai]
           enabled == categoryEnabled(run[r].user, classification.category)
       IN  IF classification.important /\ enabled
             THEN /\ run' = [run EXCEPT ![r].classification = classification,
                                        ![r].providerResult.importantFound = @ + 1,
                                        ![r].pc = "deliver"]
                  /\ hist' = [hist EXCEPT ![CurSlot(r)].cur = "classified"]
             ELSE /\ run' = [run EXCEPT ![r] = NextEmail(@)]
                  /\ hist' = [hist EXCEPT ![CurSlot(r)].cur = "unimportant"]
  /\ UNCHANGED <<verdicts, budget, probe, fetchLog, oauth, now, arrived, users, emails, runsStarted, faults, alertsSent>>

\* The record written whatever the outcome of the delivery.
SaveAfterDelivery_always(sent) == TRUE

\* if (sent) { notificationsSent++; await db.saveEmail(...) }
SaveAfterDelivery(sent) == sent

\* bot.sendEmailNotification returns true (Telegram accepted the message) or false.
Deliver(r) ==
  /\ run[r].pc = "deliver"
  /\ \E sent \in BOOLEAN :
       /\ TelegramCall(sent)
       /\ run' = [run EXCEPT ![r] =
                    LET rr == [@ EXCEPT !.confirmed = @ + (IF sent THEN 1 ELSE 0)]
                    IN  IF SaveAfterDelivery(sent)
                          THEN [rr EXCEPT !.providerResult.notificationsSent = @ + 1, !.pc = "save"]
                          ELSE NextEmail(rr)]
       /\ hist' = [hist EXCEPT ![CurSlot(r)] =
                     IF sent THEN [@ EXCEPT !.delivered = @ + 1, !.cur = "delivered"]
                     ELSE [@ EXCEPT !.cur = "failed"]]
  /\ UNCHANGED <<verdicts, budget, probe, fetchLog, oauth, now, arrived, users, emails, runsStarted, alertsSent>>

\* db.saveEmail writes the record, or raises into the catch inside the loop.
Save(r) ==
  /\ run[r].pc = "save"
  /\ \E ok \in BOOLEAN :
       /\ StorageCall(ok)
       /\ emails' = IF ok THEN saveEmail(emails, run[r].user, CurProvider(r), CurMsg(r),
                                         run[r].classification, now)
                    ELSE emails
  /\ run' = [run EXCEPT ![r] = NextEmail(@)]
  /\ UNCHANGED <<verdicts, budget, probe, fetchLog, oauth, now, arrived, users, runsStarted, hist, alertsSent>>

\* db.updateLastChecked at the end of processProvider.  When it raises the
\* exception reaches the catch of processUserEmails and the counts are lost.
Advance(r) ==
  /\ run[r].pc = "advance"
  /\ \E ok \in BOOLEAN :
       /\ StorageCall(ok)
       /\ IF ok
            THEN /\ users' = updateLastChecked(users, CurUser(r), CurProvider(r), now)
                 /\ fetchLog' = [fetchLog EXCEPT ![CurUser(r)][CurProvider(r)] = DateOf(run[r].fetchedAt)]
                 /\ run' = [run EXCEPT ![r] =
                              NextProvider([@ EXCEPT
                                !.result.emailsScanned = @ + run[r].providerResult.emailsScanned,
                                !.result.importantFound = @ + run[r].providerResult.importantFound,
                                !.result.notificationsSent = @ + run[r].providerResult.notificationsSent])]
            ELSE /\ users' = users
                 /\ fetchLog' = fetchLog
                 /\ run' = [run EXCEPT ![r].error = "storage failed",
                                       ![r].result.errors = Append(@, [provider |-> CurProvider(r), error |-> "storage failed"]),
                                       ![r].pc = "failure"]
  /\ UNCHANGED <<verdicts, budget, probe, oauth, now, arrived, emails, runsStarted, hist, alertsSent>>

\* db.recordProviderError raises out of handleProviderFailure and out of
\* processUserEmails.
RecordError_uncaught(r) ==
  /\ run[r].pc = "failure"
  /\ \E ok \in BOOLEAN :
       /\ StorageCall(ok)
       /\ IF ok
            THEN /\ users' = recordProviderError(users, CurUser(r), CurProvider(r), run[r].error, now)
                 /\ run' = [run EXCEPT ![r].pc = "canAlert"]
            ELSE /\ users' = users
                 /\ run' = [run EXCEPT ![r].pc = "users", ![r].pidx = 1, ![r].result = ZeroResult,
                                       ![r].summary.failures = @ + 1]
  /\ UNCHANGED <<verdicts, budget, probe, fetchLog, oauth, now, arrived, emails, runsStarted, hist, alertsSent>>

\* handleProviderFailure: db.recordProviderError; an exception ends the handling.
RecordError(r) ==
  /\ run[r].pc = "failure"
  /\ \E ok \in BOOLEAN :
       /\ StorageCall(ok)
       /\ IF ok
            THEN /\ users' = recordProviderError(users, CurUser(r), CurProvider(r), run[r].error, now)
                 /\ run' = [run EXCEPT ![r].pc = "canAlert"]
            ELSE /\ users' = users
                 /\ run' = [run EXCEPT ![r] = NextProvider(@)]
  /\ UNCHANGED <<verdicts, budget, probe, fetchLog, oauth, now, arrived, emails, runsStarted, hist, alertsSent>>

\* handleProviderFailure: db.canSendFailureAlert reads the stored user.
CheckAlert(r) ==
  /\ run[r].pc = "canAlert"
  /\ \E ok \in BOOLEAN :
       /\ StorageCall(ok)
       /\ run' = [run EXCEPT ![r] =
                    IF ok /\ canSendFailureAlert(users, CurUser(r), CurProvider(r), now)
                      THEN [@ EXCEPT !.pc = "sendAlert"]
                      ELSE NextProvider(@)]
  /\ UNCHANGED <<verdicts, budget, probe, fetchLog, oauth, now, arrived, users, emails, runsStarted, hist, alertsSent>>

\* The notice is stamped whether or not it was delivered.
SendAlert_unconditional(r) ==
  /\ run[r].pc = "sendAlert"
  /\ \E sent \in BOOLEAN :
       /\ TelegramCall(sent)
       /\ run' = [run EXCEPT ![r].pc = "recordAlert"]
       /\ alertsSent' = IF sent
                          THEN [alertsSent EXCEPT ![CurUser(r)][CurProvider(r)] = @ \cup {now}]
                          ELSE alertsSent
  /\ UNCHANGED <<verdicts, budget, probe, fetchLog, oauth, now, arrived, users, emails, runsStarted, hist>>

\* handleProviderFailure: bot.sendFailureAlert returns true or false.
SendAlert(r) ==
  /\ run[r].pc = "sendAlert"
  /\ \E sent \in BOOLEAN :
       /\ TelegramCall(sent)
       /\ run' = [run EXCEPT ![r] = IF sent THEN [@ EXCEPT !.pc = "recordAlert"] ELSE NextProvider(@)]
       /\ alertsSent' = IF sent
                          THEN [alertsSent EXCEPT ![CurUser(r)][CurProvider(r)] = @ \cup {now}]
                          ELSE alertsSent
  /\ UNCHANGED <<verdicts, budget, probe, fetchLog, oauth, now, arrived, users, emails, runsStarted, hist>>

\* handleProviderFailure: db.recordFailureAlert, or its exception is caught.
RecordAlert(r) ==
  /\ run[r].pc = "recordAlert"
  /\ \E ok \in BOOLEAN :
       /\ StorageCall(ok)
       /\ users' = IF ok THEN recordFailureAlert(users, CurUser(r), CurProvider(r), now) ELSE users
  /\ run' = [run EXCEPT ![r] = NextProvider(@)]
  /\ UNCHANGED <<verdicts, budget, probe, fetchLog, oauth, now, arrived, emails, runsStarted, hist, alertsSent>>

Step(r) ==
  \/ FinishRun(r) \/ BeginUser(r) \/ EndUser(r) \/ SkipProvider(r)
  \/ FetchOk(r) \/ FetchRaise(r)
  \/ LedgerCheckRaises(r) \/ SkipNotified(r) \/ Classify(r)
  \/ Deliver(r) \/ Save(r) \/ Advance(r)
  \/ RecordError(r) \/ CheckAlert(r) \/ SendAlert(r) \/ RecordAlert(r)

\* Non-overlapping runs: one invocation at a time.
Next ==
  \/ Arrive
  \/ StartRun(1)
  \/ Step(1)

Spec == Init /\ [][Next]_vars

\* Overlapping runs: a second invocation can start while the first is
\* running.  Every call to a collaborator succeeds (the budget of failures
\* is 0), so the steps that handle a failure do not occur.
InitOverlap ==
  /\ now = 0
  /\ arrived = [k \in Slots |-> NoDate]
  /\ users = [u \in Users |-> NewUser(u)]
  /\ emails = {}
  /\ run = [r \in Runs |-> IdleRun]
  /\ runsStarted = 0
  /\ faults = 0
  /\ hist = [k \in Slots |-> [delivered |-> 0, last |-> "absent", cur |-> "absent"]]
  /\ alertsSent = [u \in Users |-> [p \in Providers |-> {}]]
  /\ verdicts = Classified
  /\ budget = 0
  /\ probe = NoProbe
  /\ fetchLog = [u \in Users |-> [p \in Providers |-> NoDate]]
  /\ oauth = NoOAuth

StepOverlap(r) ==
  \/ FinishRun(r) \/ BeginUser(r) \/ EndUser(r) \/ SkipProvider(r)
  \/ FetchOk(r) \/ SkipNotified(r) \/ Classify(r)
  \/ Deliver(r) \/ Save(r) \/ Advance(r)

NextOverlap ==
  \/ Arrive
  \/ \E r \in Runs : StartRun(r) \/ StepOverlap(r)

SpecOverlap == InitOverlap /\ [][NextOverlap]_vars

\* The exception of a user sweep ends the invocation (response 500).
UserSweepRaises_abort(r) ==
  /\ run[r].pc = "provider"
  /\ Failing(1)
  /\ run' = [run EXCEPT ![r] = IdleRun]
  /\ UNCHANGED <<verdicts, budget, probe, fetchLog, oauth, now, arrived, users, emails, runsStarted, hist, alertsSent>>

\* processUserEmails(user) rejects: an exception outside its own try blocks
\* reaches the catch of the loop over the users.
UserSweepRaises(r) ==
  /\ run[r].pc = "provider"
  /\ Failing(1)
  /\ run' = [run EXCEPT ![r].pc = "users", ![r].pidx = 1, ![r].result = ZeroResult,
                        ![r].summary.failures = @ + 1, ![r].raised = @ + 1]
  /\ UNCHANGED <<verdicts, budget, probe, fetchLog, oauth, now, arrived, users, emails, runsStarted, hist, alertsSent>>

\* Outages: the mailboxes stay empty, one more call can fail than in Spec,
\* and a user sweep can end with an exception.
InitOutage ==
  /\ now = 0
  /\ arrived = [k \in Slots |-> NoDate]
  /\ users = [u \in Users |-> NewUser(u)]
  /\ emails = {}
  /\ run = [r \in Runs |-> IdleRun]
  /\ runsStarted = 0
  /\ faults = 0
  /\ hist = [k \in Slots |-> [delivered |-> 0, last |-> "absent", cur |-> "absent"]]
  /\ alertsSent = [u \in Users |-> [p \in Providers |-> {}]]
  /\ verdicts = Classified
  /\ budget = MaxFaults + 1
  /\ probe = NoProbe
  /\ fetchLog = [u \in Users |-> [p \in Providers |-> NoDate]]
  /\ oauth = NoOAuth

NextOutage ==
  \/ StartRun(1) \/ FinishRun(1) \/ BeginUser(1) \/ EndUser(1) \/ SkipProvider(1)
  \/ FetchOk(1) \/ FetchRaise(1) \/ Advance(1)
  \/ RecordError(1) \/ CheckAlert(1) \/ SendAlert(1) \/ RecordAlert(1)
  \/ UserSweepRaises(1)

SpecOutage == InitOutage /\ [][NextOutage]_vars

\* Settings: the messages are in the mailboxes from the start, recipient A
\* has the category INTERVIEW disabled or not, recipient B has paused the
\* notifications (/pause) or not, and a user sweep can end with an exception.
InitSettings ==
  /\ verdicts = Classified
  /\ now = 0
  /\ arrived = [k \in Slots |-> DateOf(0)]
  /\ \E interviewOn, notifyB \in BOOLEAN :
       users = [u \in Users |->
                  IF u = "A"
                    THEN [NewUser(u) EXCEPT !.settings.categories["INTERVIEW"] = interviewOn]
                    ELSE [NewUser(u) EXCEPT !.settings.notificationsEnabled = notifyB]]
  /\ emails = {}
  /\ run = [r \in Runs |-> IdleRun]
  /\ runsStarted = 0
  /\ faults = 0
  /\ hist = [k \in Slots |-> [delivered |-> 0, last |-> "absent", cur |-> "absent"]]
  /\ alertsSent = [u \in Users |-> [p \in Providers |-> {}]]
  /\ budget = MaxFaults
  /\ probe = NoProbe
  /\ fetchLog = [u \in Users |-> [p \in Providers |-> NoDate]]
  /\ oauth = NoOAuth

NextSettings ==
  \/ StartRun(1)
  \/ Step(1)
  \/ UserSweepRaises(1)

SpecSettings == InitSettings /\ [][NextSettings]_vars

\* Sweeps that take time: between the fetch of a provider sweep and its
\* checkpoint the clock moves and messages are received (after the fetch
\* returned).  Every call to a
\* collaborator succeeds.
ArriveDuringSweep ==
  /\ \E r \in Runs : run[r].pc \in {"check", "deliver", "save", "advance"}
  /\ \E k \in Slots : arrived[k] = NoDate /\ arrived' = [arrived EXCEPT ![k] = DateOf(now)]
  /\ UNCHANGED <<verdicts, budget, probe, fetchLog, oauth, now, users, emails, run, runsStarted, faults, hist, alertsSent>>

\* The awaits of the loop over the fetched emails (the ledger, the
\* classifier, Telegram) take SweepMinutes, once per provider sweep and as
\* long as the clock stays within MaxSlowClock.
Pass(r) ==
  /\ run[r].pc \in {"check", "deliver", "save", "advance"}
  /\ now = run[r].fetchedAt
  /\ now + SweepMinutes <= MaxSlowClock
  /\ now' = now + SweepMinutes
  /\ UNCHANGED <<verdicts, budget, probe, fetchLog, oauth, arrived, users, emails, run, runsStarted, faults, hist, alertsSent>>

NextSlow ==
  \/ Arrive
  \/ ArriveDuringSweep
  \/ StartRun(1)
  \/ StepOverlap(1)
  \/ Pass(1)

SpecSlow == InitOverlap /\ [][NextSlow]_vars

\* classifyEmail by itself, with the values it computes on the way (the
\* keyword result, categoryScores, what aiClassify did): a message, process.env.GEMINI_API_KEY set or not,
\* and the text the backend answers if it is asked.
InitClassifier ==
  /\ verdicts = Classified
  /\ now = 0
  /\ arrived = [k \in Slots |-> NoDate]
  /\ users = [u \in Users |-> NewUser(u)]
  /\ emails = {}
  /\ run = [r \in Runs |-> IdleRun]
  /\ runsStarted = 0
  /\ faults = 0
  /\ hist = [k \in Slots |-> [delivered |-> 0, last |-> "absent", cur |-> "absent"]]
  /\ alertsSent = [u \in Users |-> [p \in Providers |-> {}]]
  /\ budget = 0
  /\ fetchLog = [u \in Users |-> [p \in Providers |-> NoDate]]
  /\ oauth = NoOAuth
  /\ \E email \in ProbeEmails, apiKey \in BOOLEAN, raw \in RawResponses :
       probe = [NoProbe EXCEPT !.email = email, !.apiKey = apiKey, !.raw = raw]

\* await classifyEmail(email): the call returns.
ClassifyProbe ==
  /\ ~probe.done
  /\ probe' = [probe EXCEPT
                 !.done = TRUE,
                 !.score = keywordClassify(probe.email).score,
                 !.called = UsesAI(probe.email, probe.apiKey),
                 !.keyword = keywordClassify(probe.email),
                 !.categoryScores = [c \in CATEGORIES \ {CatOther} |-> CategoryScore(probe.email, c)],
                 !.ai = aiClassify(probe.raw),
                 !.decodes = IF probe.raw.shape = "none" THEN 0
                             ELSE parseAIResponseFrom(probe.raw, StackFrames).decodes,
                 !.result = classifyEmail(probe.email, probe.apiKey, aiClassify(probe.raw))]
  /\ UNCHANGED <<verdicts, budget, fetchLog, oauth, now, arrived, users, emails, run, runsStarted, faults, hist,
                 alertsSent>>

NextClassifier == ClassifyProbe

SpecClassifier == InitClassifier /\ [][NextClassifier]_vars

TypeOK == runsStarted \in 0..MaxRuns /\ faults \in 0..budget

\* ------------------------------------------------------------- OAuth flow
\* db.updateSession(chatId, {oauthState: ...})
updateSession(sessions, chatId, oauthState) ==
  [sessions EXCEPT ![chatId].oauthState = oauthState]

\* db.getSessionByOAuthState: the chats whose session holds the state.
getSessionByOAuthState(sessions, oauthState) ==
  { u \in Users : sessions[u].oauthState = oauthState }

\* db.updateProviderCredentials: the provider is enabled with the new
\* refresh token; its recorded error is cleared.
updateProviderCredentials(coll, chatId, p) ==
  [coll EXCEPT ![chatId].providers[p] =
     [ enabled |-> TRUE, refreshToken |-> TRUE, lastError |-> "none", lastErrorAt |-> NoDate ]]

\* The local state of callback c after its response was sent.
Respond(c, response) ==
  [oauth EXCEPT !.cb[c] = [IdleCallback EXCEPT !.response = response]]

OAuthFrame == <<verdicts, budget, probe, fetchLog, now, arrived, emails, run, runsStarted, hist, alertsSent>>

\* bot.initiateOAuth(chatId, provider, reconnect): a fresh state is saved in
\* the session, then the authorization link is sent.  Reading the user or
\* writing the session can raise; the send can fail after the state is saved.
initiateOAuth(u, p, reconnect) ==
  /\ \E readOk, writeOk, sent \in BOOLEAN :
       IF ~readOk
         THEN StorageCall(FALSE) /\ oauth' = oauth
       ELSE IF ~reconnect /\ users[u].providers[p].enabled
         THEN TelegramCall(sent) /\ oauth' = oauth
       ELSE IF ~writeOk
         THEN StorageCall(FALSE) /\ oauth' = oauth
       ELSE /\ oauth.issued < MaxStates
            /\ TelegramCall(sent)
            /\ oauth' = [oauth EXCEPT !.issued = @ + 1,
                                      !.session = updateSession(@, u, oauth.issued + 1)]
  /\ UNCHANGED <<OAuthFrame, users>>

\* GET /oauth/<provider>/callback arrives: the query carries an error, or
\* lacks the code or the state, or carries both.
OAuthCallback(c) ==
  /\ oauth.cb[c].pc = "idle"
  /\ oauth.requests < MaxCallbacks
  /\ \E p \in Providers, st \in 1..MaxStates, query \in {"error", "missing", "complete"} :
       oauth' = [oauth EXCEPT
                   !.requests = @ + 1,
                   !.cb[c] = CASE query = "error" -> [IdleCallback EXCEPT !.response = "failed"]
                               [] query = "missing" -> [IdleCallback EXCEPT !.response = "400"]
                               [] OTHER -> [IdleCallback EXCEPT !.pc = "lookup", !.provider = p, !.state = st]]
  /\ UNCHANGED <<OAuthFrame, users, faults>>

\* db.getSessionByOAuthState(state): no session, a session, or the call raises.
LookupState(c) ==
  /\ oauth.cb[c].pc = "lookup"
  /\ \E ok \in BOOLEAN :
       /\ StorageCall(ok)
       /\ LET found == getSessionByOAuthState(oauth.session, oauth.cb[c].state)
          IN oauth' = IF ~ok THEN Respond(c, "failed")
                      ELSE IF found = {} THEN Respond(c, "400")
                      ELSE [oauth EXCEPT !.cb[c].pc = "exchange",
                                         !.cb[c].chatId = CHOOSE u \in found : TRUE]
  /\ UNCHANGED <<OAuthFrame, users>>

\* exchangeCodeForTokens(code): tokens, tokens without a refresh token, or
\* the exchange raises.
ExchangeCode(c) ==
  /\ oauth.cb[c].pc = "exchange"
  /\ \E outcome \in {"tokens", "no refresh token", "raises"} :
       /\ AdapterCall(IF outcome = "raises" THEN 1 ELSE 0)
       /\ oauth' = IF outcome = "tokens" THEN [oauth EXCEPT !.cb[c].pc = "store"]
                   ELSE Respond(c, "failed")
  /\ UNCHANGED <<OAuthFrame, users>>

\* db.updateProviderCredentials(session.telegramChatId, provider, tokens)
StoreCredentials(c) ==
  /\ oauth.cb[c].pc = "store"
  /\ \E ok \in BOOLEAN :
       /\ StorageCall(ok)
       /\ IF ok
            THEN /\ users' = updateProviderCredentials(users, oauth.cb[c].chatId, oauth.cb[c].provider)
                 /\ oauth' = [oauth EXCEPT !.stored[oauth.cb[c].state] = @ + 1,
                                           !.cb[c].pc = "success"]
            ELSE /\ users' = users
                 /\ oauth' = Respond(c, "failed")
  /\ UNCHANGED OAuthFrame

\* bot.handleOAuthSuccess: the session is marked connected and the success
\* messages are sent, or one of the calls fails and the error is rethrown
\* to the catch of the callback.
HandleOAuthSuccess(c) ==
  /\ oauth.cb[c].pc = "success"
  /\ \E sent \in BOOLEAN :
       /\ TelegramCall(sent)
       /\ oauth' = IF sent THEN [oauth EXCEPT !.cb[c].pc = "clear"]
                   ELSE Respond(c, "failed")
  /\ UNCHANGED <<OAuthFrame, users>>

\* db.updateSession(session.telegramChatId, {oauthState: null}), then the
\* success page.
ClearState(c) ==
  /\ oauth.cb[c].pc = "clear"
  /\ \E ok \in BOOLEAN :
       /\ StorageCall(ok)
       /\ oauth' = IF ok
                     THEN [Respond(c, "connected") EXCEPT
                             !.session = updateSession(@, oauth.cb[c].chatId, NoState)]
                     ELSE Respond(c, "failed")
  /\ UNCHANGED <<OAuthFrame, users>>

NextOAuth ==
  \/ \E u \in Users, p \in Providers, reconnect \in BOOLEAN : initiateOAuth(u, p, reconnect)
  \/ \E c \in Callbacks :
       \/ OAuthCallback(c) \/ LookupState(c) \/ ExchangeCode(c)
       \/ StoreCredentials(c) \/ HandleOAuthSuccess(c) \/ ClearState(c)

SpecOAuth == Init /\ [][NextOAuth]_vars

\* ------------------------------------------------------------- properties
\* The Notification Record of a slot: the document db.isEmailNotified looks for.
NotifiedRecords(k) ==
  {e \in emails : e.telegramChatId = k[1] /\ e.provider = k[2] /\ e.messageId = k[3] /\ e.notified}

\* The current sweep of the slot's pair has dealt with the message.
Processed(k) == hist[k].cur \in {"skipped", "checkfail", "unimportant", "failed", "delivered"}

\* C1: when two successive sweeps of a pair both fetch a message and its
\* delivery succeeded in the first, then once the second sweep has dealt with
\* the message (its ledger check returned) there is exactly one Notification
\* Record for it and exactly one delivered notification.
C1_OneRecordOneDelivery ==
  \A k \in Slots :
    (hist[k].last = "delivered" /\ hist[k].cur \in {"skipped", "unimportant", "failed", "delivered"})
      => (hist[k].delivered = 1 /\ Cardinality(NotifiedRecords(k)) = 1)

\* C2: in non-overlapping runs a message is delivered to a recipient at most
\* once, whatever calls fail (db.saveEmail raising after the delivery included).
C2_AtMostOnce == \A k \in Slots : hist[k].delivered <= 1

\* C3: when invocations overlap and every call succeeds, a message whose
\* record (if any) belongs to the recipient is delivered to the recipient at
\* most once.
C3_NoDoubleDeliveryWhenOverlapping ==
  \A k \in Slots :
    (\A e \in emails : e.uniqueId = UniqueId(k[2], k[3]) => e.telegramChatId = k[1])
      => hist[k].delivered <= 1

\* C4: after a run in which the delivery of a message failed, the checkpoint
\* of the pair is not later than the message's receivedAt, so that the next
\* fetch window still holds the message (without which it is never delivered).
C4_CheckpointKeepsFailedMessage ==
  \A k \in Slots :
    (EnvPoint /\ hist[k].cur = "failed")
      => \/ users[k[1]].lastChecked[k[2]] = NoDate
         \/ users[k[1]].lastChecked[k[2]][1] <= arrived[k][1]

C7_RecordOnlyAfterDelivery ==
  \A e \in emails :
    e.notified => hist[<<e.telegramChatId, e.provider, e.messageId>>].delivered >= 1

\* A record was written in a sweep in which another delivery failed.
C7_Witness ==
  /\ \E e \in emails : e.notified
  /\ \E k \in Slots : hist[k].cur = "failed" /\ NotifiedRecords(k) = {}

\* C8: when another recipient holds the record of the same uniqueId and every
\* call succeeds, the message is still delivered to this recipient, and once
\* delivered it is skipped by the later sweeps: it is delivered once.
C8_ScopedByRecipient ==
  \A k \in Slots :
    (faults = 0 /\ \E e \in emails : e.uniqueId = UniqueId(k[2], k[3]) /\ e.telegramChatId # k[1])
      => hist[k].delivered <= 1

\* The sweeps that hold the result of a fetch or handle its failure.
InSweep(r) == run[r].pc \in {"check", "deliver", "save", "advance", "failure",
                             "canAlert", "sendAlert", "recordAlert"}

\* C9: the lower bound a sweep fetched with is max(lastCheckedAt, now - W) when
\* the user has a checkpoint for the provider and now - W when not, W = 30,
\* and is never earlier than now - W.
C9_LowerBound ==
  \A r \in Runs :
    InSweep(r) =>
      LET lastChecked == run[r].user.lastChecked[CurProvider(r)]
          floor == run[r].fetchedAt - 30
      IN  /\ run[r].since >= floor
          /\ lastChecked = NoDate => run[r].since = floor
          /\ lastChecked # NoDate =>
                /\ run[r].since >= lastChecked[1]
                /\ run[r].since \in {lastChecked[1], floor}

\* A sweep whose checkpoint is older than the lookback window.
C9_Witness ==
  \E r \in Runs :
    /\ InSweep(r)
    /\ run[r].user.lastChecked[CurProvider(r)] # NoDate
    /\ run[r].user.lastChecked[CurProvider(r)][1] < run[r].fetchedAt - 30
    /\ run[r].since = run[r].fetchedAt - 30

\* C10: while processUserEmails handles a user, the checkpoint of every
\* provider whose fetch raised is the one the user had when the run loaded it.
C10_FetchRaiseKeepsCheckpoint ==
  \A r \in Runs :
    run[r].pc \notin {"idle", "users"} =>
      \A i \in DOMAIN run[r].result.errors :
        LET e == run[r].result.errors[i]
        IN  e.error = "fetch failed"
              => users[CurUser(r)].lastChecked[e.provider] = run[r].user.lastChecked[e.provider]

\* The fetch raised in a sweep of a pair that had a checkpoint, later than it.
C10_Witness ==
  \E r \in Runs :
    /\ run[r].pc = "failure" /\ run[r].error = "fetch failed"
    /\ run[r].user.lastChecked[CurProvider(r)] # NoDate
    /\ run[r].user.lastChecked[CurProvider(r)][1] < now

\* C11: a step of the loop in which a call fails (the ledger check, the
\* delivery or the ledger write) goes on with the next message of the same
\* batch, or with the end of the loop after the last one; and when
\* db.updateLastChecked then returns, every message of the batch has been dealt
\* with and lastChecked of the pair is the instant of the sweep.
C11_MessageFailureStaysInLoop ==
  [][\A r \in Runs :
       /\ (run[r].pc \in {"check", "deliver", "save"} /\ faults' > faults)
            => /\ run'[r].batch = run[r].batch
               /\ IF run[r].idx < Len(run[r].batch)
                    THEN run'[r].pc = "check" /\ run'[r].idx = run[r].idx + 1
                    ELSE run'[r].pc = "advance"
       /\ (run[r].pc = "advance" /\ faults' = faults /\ run'[r] # run[r])
            => /\ users'[CurUser(r)].lastChecked[CurProvider(r)] = DateOf(now)
               /\ \A i \in DOMAIN run[r].batch :
                    Processed(<<CurUser(r), CurProvider(r), run[r].batch[i]>>)]_vars

\* The ledger check of the first message of a batch raised, the second message
\* was dealt with and the checkpoint of the pair was written.
C11_Witness ==
  \E k1, k2 \in Slots :
    /\ k1[1] = k2[1] /\ k1[2] = k2[2] /\ k1[3] = MsgOrder[1] /\ k2[3] = MsgOrder[2]
    /\ hist[k1].cur = "checkfail"
    /\ hist[k2].cur \in {"unimportant", "failed", "delivered"}
    /\ run[1].pc = "provider" /\ run[1].pidx = 2 /\ CurUser(1) = k1[1]
    /\ users[k1[1]].lastChecked[k1[2]] = DateOf(now)

\* C12: a fetch in which a request fails (the authentication or a folder
\* request) raises: the sweep goes to the handling of the provider failure and
\* never on with a list of messages.
C12_FailedRequestRaises ==
  [][\A r \in Runs :
       (run[r].pc = "provider" /\ faults' > faults) => run'[r].pc = "failure"]_vars

\* C13: for every (recipient, provider), two delivered outage notices are at
\* least 2 hours (120 minutes) apart.
C13_NoticesTwoHoursApart ==
  \A u \in Users, p \in Providers :
    \A t1, t2 \in alertsSent[u][p] : t1 < t2 => t2 - t1 >= 120

\* lastFailureAlert is the instant of a delivered notice, in the next state.
StampedAfterNotice ==
  \A u \in Users, p \in Providers :
    users'[u].lastFailureAlert[p] # NoDate
      => users'[u].lastFailureAlert[p][1] \in alertsSent'[u][p]

\* A notice whose delivery fails leaves the user documents as they are.
FailedNoticeStampsNothing ==
  \A r \in Runs :
    (run[r].pc = "sendAlert" /\ faults' > faults) => (users' = users /\ alertsSent' = alertsSent)

C15_UserExceptionCountsOnce ==
  [][\A r \in Runs :
       /\ (/\ run[r].pc = "provider" /\ faults' > faults
            /\ run'[r].pc \notin {"check", "advance", "failure"})
            => /\ run'[r].pc = "users"
               /\ run'[r].queue = run[r].queue
               /\ run'[r].summary = [run[r].summary EXCEPT !.failures = @ + 1]
       /\ (run[r].pc = "users" /\ run'[r] # run[r])
            => IF run[r].queue # <<>>
                 THEN /\ run'[r].user = Head(run[r].queue)
                      /\ run'[r].queue = Tail(run[r].queue)
                      /\ run'[r].pc \in {"provider", "users"}
                 ELSE run'[r].pc = "idle"]_vars

\* The sweep of the first user ended with an exception and the second user
\* is swept in the same invocation.
C15_Witness ==
  /\ run[1].pc \in {"advance", "failure"} /\ CurUser(1) = UserOrder[2]
  /\ run[1].summary.failures = 1 /\ run[1].summary.usersProcessed = 0
  /\ faults = 1

\* The steps of handleProviderFailure.
FailureHandling == {"failure", "canAlert", "sendAlert", "recordAlert"}

\* C16: while the failure of a provider sweep is handled, the provider is in
\* the errors of the user's result; every step of the handling, whatever call
\* fails in it, stays in the handling or goes on to the user's next provider
\* with the errors kept; and an enabled provider whose turn has come is swept.
C16_ProviderFailureIsIsolated ==
  [][\A r \in Runs :
       /\ (run[r].pc \in FailureHandling /\ run'[r] # run[r])
            => /\ \E i \in DOMAIN run[r].result.errors :
                    run[r].result.errors[i].provider = CurProvider(r)
               /\ run'[r].result.errors = run[r].result.errors
               /\ run'[r].user = run[r].user /\ run'[r].queue = run[r].queue
               /\ \/ run'[r].pc \in FailureHandling /\ run'[r].pidx = run[r].pidx
                  \/ run'[r].pc = "provider" /\ run'[r].pidx = run[r].pidx + 1
       /\ (/\ run[r].pc = "provider" /\ run[r].pidx <= Len(ProviderOrder)
            /\ ProviderUsable(run[r].user, CurProvider(r)) /\ run'[r] # run[r])
            => run'[r].pc \in {"check", "advance", "failure"}]_vars

\* The sweep of the user's first provider failed, a call of the failure
\* handling failed too, and the user's second provider is swept.
C16_Witness ==
  /\ run[1].pc = "advance" /\ run[1].pidx = 2
  /\ Len(run[1].result.errors) = 1 /\ run[1].result.errors[1].provider = ProviderOrder[1]
  /\ faults = 2 /\ runsStarted = 1


\* The keyword result as classifyEmail returns it, with the given method.
Tier1Result(email, method) ==
  LET keywordResult == keywordClassify(email)
  IN  [ important |-> keywordResult.important,
        category |-> keywordResult.category,
        confidence |-> KeywordConfidence(keywordResult.score),
        reason |-> keywordResult.reason,
        method |-> method ]

\* C17: classifyEmail calls the AI tier exactly when the Tier-1 score is
\* strictly greater than 3, strictly less than 8 and a backend is configured;
\* with a score at or below 3 or at or above 8 (3 and 8 included) it returns
\* the Tier-1 result with method 'keyword'.
C17_AIOnlyStrictlyInsideBand ==
  probe.done =>
    /\ probe.called <=> (probe.score > 3 /\ probe.score < 8 /\ probe.apiKey)
    /\ (probe.score <= 3 \/ probe.score >= 8)
         => probe.result = Tier1Result(probe.email, "keyword")

\* A message scoring exactly 3 or exactly 8 was classified with a backend
\* configured that would have answered with an object.
C17_Witness ==
  /\ probe.done /\ probe.apiKey /\ probe.raw.shape = "object"
  /\ probe.score \in {3, 8}
  /\ probe.result.method = "keyword"

\* C18: when the score is in the AI band and the backend call fails or no
\* backend is configured, classifyEmail returns the Tier-1 important,
\* category, confidence and reason with method 'keyword_fallback'; method
\* 'ai' is returned only when a backend is configured, the score is in the
\* band and the call returned.
C18_FallbackWhenAIUnavailable ==
  probe.done =>
    /\ (probe.score > 3 /\ probe.score < 8 /\ (probe.raw.shape = "none" \/ ~probe.apiKey))
         => probe.result = Tier1Result(probe.email, "keyword_fallback")
    /\ probe.result.method = "ai"
         => (probe.apiKey /\ probe.raw.shape # "none" /\ probe.score > 3 /\ probe.score < 8)

\* A message in the band, a configured backend whose call failed, the
\* fallback returned.
C18_Witness ==
  /\ probe.done /\ probe.apiKey /\ probe.raw.shape = "none"
  /\ probe.score > 3 /\ probe.score < 8
  /\ probe.result.method = "keyword_fallback"

\* A Classification Result with every field set and in its range.
SchemaValid(result) ==
  /\ {"important", "category", "confidence", "reason", "method"} \subseteq DOMAIN result
  /\ result.important \in BOOLEAN
  /\ result.category \in CATEGORIES
  /\ result.confidence \in 0..100
  /\ result.method \in {"keyword", "ai", "keyword_fallback"}

\* C19: whatever text the AI backend answers, the result of classifyEmail has
\* a boolean important, a category of the closed set, a confidence in [0,1],
\* a reason and a method.
C19_ResultIsSchemaValid ==
  probe.done => SchemaValid(probe.result)

\* The message of the example: subject 'Interview Schedule - Round 2' from
\* hr@acme-corp.com, the body with 'technical interview' and 'zoom interview'.
ExampleEmail ==
  ProbeEmail(<<"interview", "schedule", "round", "2">>, [local |-> "hr", domain |-> "acme-corp.com"])

\* C20 as stated: the example message scores 9 and is returned as important,
\* INTERVIEW, method 'keyword', confidence 0.9.
C20_ExampleScoresNine ==
  (probe.done /\ probe.email = ExampleEmail) =>
    /\ probe.score = 9
    /\ probe.result.important /\ probe.result.category = "INTERVIEW"
    /\ probe.result.method = "keyword" /\ probe.result.confidence = 90

\* C20: the example message, with no other keyword in its text, scores 14
\* (3 + 3 + 3 for 'interview schedule', 'technical interview' and 'zoom
\* interview', 2 for 'interview', 3 for the sender) and is returned as
\* important, INTERVIEW, method 'keyword', confidence 1.0.
C20_ExampleScoresFourteen ==
  (probe.done /\ probe.email = ExampleEmail) =>
    /\ probe.score = 14
    /\ probe.result.important /\ probe.result.category = "INTERVIEW"
    /\ probe.result.method = "keyword" /\ probe.result.confidence = 100

\* The example message has been classified.
C20_Witness ==
  probe.done /\ probe.email = ExampleEmail /\ probe.result.method = "keyword"


\* The text matches no keyword of any category, in any tier.
NoCategoryKeyword(email) ==
  \A c \in CATEGORIES \ {CatOther} : MatchedKeywords(ScanText(email), c) = <<>>

\* C21: a message whose text matches at least one negative keyword and no
\* category keyword has every category score 0 and is classified OTHER, not
\* important.
C21_NegativeOnlyIsOther ==
  (probe.done /\ NegativeScore(ScanText(probe.email)) > 0 /\ NoCategoryKeyword(probe.email)) =>
    /\ \A c \in CATEGORIES \ {CatOther} : probe.categoryScores[c] = 0
    /\ probe.keyword.category = CatOther
    /\ ~probe.keyword.important


\* C26: keywordClassify sets important exactly when the winning category is
\* not OTHER and the winning score is at least 2, and the confidence of a
\* keyword-tier result of classifyEmail is min(score / 10, 1.0): a tenth of
\* the score below 10, exactly 1.0 from 10 on.
C26_ImportantAndConfidence ==
  probe.done =>
    /\ probe.keyword.important <=> (probe.keyword.category # CatOther /\ probe.keyword.score >= 2)
    /\ probe.result.method \in {"keyword", "keyword_fallback"}
         => probe.result.confidence = (IF probe.score >= 10 THEN 100 ELSE 10 * probe.score)

\* A message scoring more than 10 was classified by keywords: it is
\* important and its confidence is 1.0.
C26_Witness ==
  /\ probe.done /\ probe.score > 10
  /\ probe.keyword.important
  /\ probe.result.method = "keyword" /\ probe.result.confidence = 100


\* The highest of four category scores.
Max4(scores) ==
  Max(Max(scores["PLACEMENT_DRIVE"], scores["INTERVIEW"]),
      Max(scores["ASSESSMENT"], scores["SHORTLISTED"]))

\* The highest of the category scores of the classified message.
HighestScore == Max4(probe.categoryScores)

\* C27: the winning category has the highest score and is the first of
\* PLACEMENT_DRIVE, INTERVIEW, ASSESSMENT, SHORTLISTED to reach it (no
\* category before it scores as much, none after it scores more); when no
\* category scores above 0 the result is OTHER with score 0.
C27_FirstHighestWins ==
  probe.done =>
    IF HighestScore = 0
      THEN probe.keyword.category = CatOther /\ probe.keyword.score = 0
      ELSE \E i \in DOMAIN CategoryOrder :
             /\ probe.keyword.category = CategoryOrder[i]
             /\ probe.keyword.score = HighestScore
             /\ probe.categoryScores[CategoryOrder[i]] = HighestScore
             /\ \A j \in 1..(i - 1) : probe.categoryScores[CategoryOrder[j]] < HighestScore

\* Two categories tie for the highest score through their keywords and the
\* first of them in the order won.
C27_Witness ==
  /\ probe.done
  /\ probe.categoryScores["INTERVIEW"] = 2 /\ probe.categoryScores["SHORTLISTED"] = 2
  /\ HighestScore = 2
  /\ probe.keyword.category = "INTERVIEW"


\* C28: a message from a trusted sender whose text matches no category
\* keyword is classified OTHER and not important (the sender bonus goes to
\* the category that wins on keywords, and here none does).
C28_BonusOnlyForKeywordWinner ==
  (probe.done /\ TRUSTED_SENDER_PATTERNS(probe.email.from) /\ NoCategoryKeyword(probe.email)) =>
    (probe.keyword.category = CatOther /\ ~probe.keyword.important)


\* How many keywords of a list occur in the text, each counted once.
DistinctMatches(text, kws) == Cardinality({i \in DOMAIN kws : Includes(text, kws[i])})

\* C29: for an untrusted sender the score of every category is
\* max(0, 3*high + 2*medium + 1*low - 2*negatives), where high, medium, low
\* and negatives count the distinct keywords of the list that occur in the
\* text, however often; no category score is negative for any sender.
C29_CategoryScoreFormula ==
  probe.done =>
    \A c \in CATEGORIES \ {CatOther} :
      LET text == ScanText(probe.email)
          high == DistinctMatches(text, KEYWORD_SCORES[c].high)
          medium == DistinctMatches(text, KEYWORD_SCORES[c].medium)
          low == DistinctMatches(text, KEYWORD_SCORES[c].low)
          negatives == DistinctMatches(text, NEGATIVE_KEYWORDS)
      IN  /\ probe.categoryScores[c] >= 0
          /\ ~TRUSTED_SENDER_PATTERNS(probe.email.from)
               => probe.categoryScores[c] = Max(0, 3 * high + 2 * medium + 1 * low - 2 * negatives)

\* An untrusted sender's message whose text has the keyword 'interview'
\* three times: INTERVIEW scores 3 + 3 + 3 + 2 = 11.
C29_Witness ==
  /\ probe.done
  /\ probe.email = ProbeEmail(<<"interview", "schedule", "round", "2">>,
                              [local |-> "john", domain |-> "college.edu"])
  /\ probe.categoryScores["INTERVIEW"] = 11


\* C30: when the response text is a JSON object, parseAIResponse validates
\* each field by itself: important is the boolean of the response or false,
\* category is the label of the response when it is in the closed set or
\* OTHER, confidence is the number of the response when it is in [0,1] or
\* 0.5, reason is the string of the response or 'AI classification'.
C30_FieldsValidatedIndependently ==
  (probe.done /\ probe.raw.shape = "object") =>
    /\ probe.ai.important = (probe.raw.important = "true")
    /\ probe.ai.category = (IF probe.raw.category \in CATEGORIES THEN probe.raw.category ELSE CatOther)
    /\ probe.ai.confidence =
         (IF probe.raw.confidence.isNumber /\ probe.raw.confidence.v \in 0..100
            THEN probe.raw.confidence.v ELSE 50)
    /\ probe.ai.reason.text =
         (IF probe.raw.reason.isString THEN probe.raw.reason.text ELSE "AI classification")

\* An object whose confidence is out of range and whose other fields are
\* valid: the confidence is 0.5 and the other fields are those of the response.
C30_Witness ==
  /\ probe.done /\ probe.raw.shape = "object"
  /\ probe.raw.confidence = [isNumber |-> TRUE, v |-> 150]
  /\ probe.raw.important = "true" /\ probe.raw.category = "INTERVIEW" /\ probe.raw.reason.isString
  /\ probe.ai.confidence = 50 /\ probe.ai.important /\ probe.ai.category = "INTERVIEW"
  /\ probe.ai.reason.text = probe.raw.reason.text


\* C25: a step of the sweep of a recipient leaves every Notification Record
\* of another recipient and every other recipient's user document (its
\* checkpoints, its failure-alert state) as they are.
C25_SweepLeavesOtherRecipients ==
  [][\A r \in Runs :
       run[r].pc \notin {"idle", "users"} =>
         /\ \A e \in emails : e.telegramChatId # CurUser(r) => e \in emails'
         /\ \A u \in Users \ {CurUser(r)} : users'[u] = users[u]]_vars


\* The recipient's preference for the category is stored as false.
ExplicitlyDisabled(user, category) ==
  category \in DOMAIN user.settings.categories /\ ~user.settings.categories[category]

\* The classification makes the sweep notify: important, category not disabled.
Wanted(user, classification) ==
  classification.important /\ ~ExplicitlyDisabled(user, classification.category)

\* C22: a message whose every possible category is disabled for its
\* recipient is never delivered to it and has no Notification Record of it.
\* A step of the loop on a message leaves emailsScanned at the length of the
\* fetched list; it adds 1 to importantFound and goes on to the delivery
\* exactly when the classification is important and its category is not
\* disabled; otherwise importantFound, notificationsSent, the records and
\* the deliveries stay as they are.
C22_DisabledCategoryIsNotNotified ==
  [][/\ \A k \in Slots :
          (\A ai \in AIReplies : ExplicitlyDisabled(users[k[1]], verdicts[k[3], ai].category))
            => (hist[k].delivered = 0 /\ NotifiedRecords(k) = {})
     /\ \A r \in Runs :
          (run[r].pc = "check" /\ run'[r] # run[r]) =>
            /\ run'[r].providerResult.emailsScanned = Len(run[r].batch)
            /\ IF run'[r].pc = "deliver"
                 THEN /\ \E ai \in AIReplies :
                           /\ run'[r].classification = verdicts[CurMsg(r), ai]
                           /\ Wanted(run[r].user, verdicts[CurMsg(r), ai])
                      /\ run'[r].providerResult.importantFound = run[r].providerResult.importantFound + 1
                 ELSE /\ run'[r].providerResult = run[r].providerResult
                      /\ emails' = emails
                      /\ hist'[CurSlot(r)].delivered = hist[CurSlot(r)].delivered
                      /\ hist'[CurSlot(r)].cur = "unimportant"
                           => \E ai \in AIReplies : ~Wanted(run[r].user, verdicts[CurMsg(r), ai])]_vars

\* Recipient A has INTERVIEW disabled and the sweep of (A, gmail) has passed
\* the interview invitation: it is counted as scanned, not as important.
C22_Witness ==
  /\ ~users["A"].settings.categories["INTERVIEW"]
  /\ run[1].pc \in {"check", "advance"} /\ CurUser(1) = "A" /\ CurProvider(1) = "gmail"
  /\ hist[<<"A", "gmail", "m1">>].cur = "unimportant"
  /\ run[1].providerResult.emailsScanned >= 1
  /\ run[1].providerResult.importantFound = 0


\* The sum of a count over the rows of the per-user breakdown.
RECURSIVE SumOver(_, _)
SumOver(rows, field) ==
  IF rows = <<>> THEN 0 ELSE Head(rows)[field] + SumOver(Tail(rows), field)

\* How many provider errors the rows of the per-user breakdown list.
RECURSIVE ErrorsListed(_)
ErrorsListed(rows) ==
  IF rows = <<>> THEN 0 ELSE Len(Head(rows).errors) + ErrorsListed(Tail(rows))

\* C23: in the summary of an invocation emailsScanned, importantFound and
\* notificationsSent are the sums of the same field over the per-user
\* breakdown, and failures is the number of provider errors listed in the
\* breakdown plus the number of users whose sweep raised.
C23_SummaryIsSumOfBreakdown ==
  \A r \in Runs :
    LET summary == run[r].summary
    IN  /\ summary.emailsScanned = SumOver(summary.userResults, "emailsScanned")
        /\ summary.importantFound = SumOver(summary.userResults, "importantFound")
        /\ summary.notificationsSent = SumOver(summary.userResults, "notificationsSent")
        /\ summary.failures = ErrorsListed(summary.userResults) + run[r].raised

\* The loop over the users is over: one user is in the breakdown with
\* scanned messages and a provider error, the sweep of the other one raised.
C23_Witness ==
  /\ run[1].pc = "users" /\ run[1].queue = <<>>
  /\ run[1].raised = 1
  /\ Len(run[1].summary.userResults) = 1
  /\ run[1].summary.emailsScanned >= 1
  /\ run[1].summary.failures = 2


\* Active as the claim defines it: isActive, a provider enabled, notifications on.
ActiveRecipient(user) ==
  /\ user.isActive
  /\ \E p \in Providers : user.providers[p].enabled
  /\ user.settings.notificationsEnabled

\* C24: an invocation counts in usersProcessed and lists in its breakdown
\* only recipients with a provider enabled and notifications on; for a
\* recipient whose notifications are off nothing is fetched, nothing is
\* delivered and no checkpoint is written.
C24_OnlyActiveRecipientsProcessed ==
  /\ \A r \in Runs :
       /\ run[r].summary.usersProcessed <= Cardinality({u \in Users : ActiveRecipient(users[u])})
       /\ \A i \in DOMAIN run[r].summary.userResults :
            ActiveRecipient(users[run[r].summary.userResults[i].chatId])
  /\ \A u \in Users :
       ~users[u].settings.notificationsEnabled =>
         /\ \A k \in Slots : k[1] = u => (hist[k].cur = "absent" /\ hist[k].delivered = 0)
         /\ \A p \in Providers : users[u].lastChecked[p] = NoDate


\* C31: parseAIResponse runs JSON.parse at most twice on a response text
\* (the text, then the part between its braces), and returns the fixed
\* result important = false, OTHER, confidence 0 when both fail.
C31_AtMostTwoDecodes ==
  (probe.done /\ probe.raw.shape # "none") =>
    /\ probe.decodes <= 2
    /\ probe.raw.shape \in {"broken", "text"}
         => (probe.ai.kind = "result" /\ ~probe.ai.important
             /\ probe.ai.category = CatOther /\ probe.ai.confidence = 0)


\* C38: every result of classifyEmail with method 'keyword_fallback' is
\* important, has a category other than OTHER and a confidence from 0.4 to
\* 0.7, its Tier-1 score being 4, 5, 6 or 7.
C38_FallbackIsImportant ==
  (probe.done /\ probe.result.method = "keyword_fallback") =>
    /\ probe.score > 3 /\ probe.score < 8
    /\ probe.result.important
    /\ probe.result.category # CatOther
    /\ probe.result.confidence >= 40 /\ probe.result.confidence <= 70

\* A message scoring 4 was classified without a backend configured.
C38_Witness ==
  /\ probe.done /\ ~probe.apiKey /\ probe.score = 4
  /\ probe.result.method = "keyword_fallback" /\ probe.result.confidence = 40


\* C32: lastChecked of a (recipient, provider) changes only in the step that
\* ends a provider sweep of that pair whose loop over the messages is over
\* (db.updateLastChecked returns), and its new value is not earlier than
\* the value it had.
C32_CheckpointOnlyAtSweepEnd ==
  [][\A u \in Users, p \in Providers :
       users'[u].lastChecked[p] # users[u].lastChecked[p] =>
         /\ \E r \in Runs :
              /\ run[r].pc = "advance" /\ CurUser(r) = u /\ CurProvider(r) = p
              /\ run'[r].pc = "provider" /\ run'[r].pidx = run[r].pidx + 1
         /\ users'[u].lastChecked[p] # NoDate
         /\ users[u].lastChecked[p] # NoDate
              => users'[u].lastChecked[p][1] >= users[u].lastChecked[p][1]]_vars

\* The second run has moved the checkpoint of (A, gmail) forward from the
\* value the run loaded.
C32_Witness ==
  /\ runsStarted = 2 /\ CurUser(1) = "A" /\ run[1].pc = "provider" /\ run[1].pidx = 2
  /\ run[1].user.lastChecked["gmail"] # NoDate
  /\ users["A"].lastChecked["gmail"] = DateOf(now)
  /\ run[1].user.lastChecked["gmail"][1] < now

\* C33: a step of a sweep whose fetch succeeded leaves lastFailureAlert of
\* every (recipient, provider) as it is. A step of the handling of a
\* provider failure changes in the user documents at most lastError and
\* lastErrorAt of that pair and lastFailureAlert of that pair, the latter
\* only after the notice was delivered at this instant.
C33_AlertStateIndependent ==
  [][\A r \in Runs :
       /\ (run[r].pc \in {"check", "deliver", "save", "advance"} \/ run'[r].pc \in {"check", "advance"})
            => \A u \in Users : users'[u].lastFailureAlert = users[u].lastFailureAlert
       /\ run[r].pc \in FailureHandling =>
            LET u == CurUser(r)
                p == CurProvider(r)
            IN  /\ users' = [users EXCEPT
                               ![u].providers[p].lastError = users'[u].providers[p].lastError,
                               ![u].providers[p].lastErrorAt = users'[u].providers[p].lastErrorAt,
                               ![u].lastFailureAlert[p] = users'[u].lastFailureAlert[p]]
                /\ users'[u].lastFailureAlert[p] # users[u].lastFailureAlert[p]
                     => (run[r].pc = "recordAlert" /\ now \in alertsSent[u][p]
                         /\ users'[u].lastFailureAlert[p] = DateOf(now))]_vars

\* The provider of a pair with a delivered and stamped outage notice has
\* recovered: its next sweep ended and moved the checkpoint, the stamp stays.
C33_Witness ==
  \E u \in Users, p \in Providers :
    /\ users[u].lastFailureAlert[p] # NoDate
    /\ users[u].lastChecked[p] # NoDate
    /\ users[u].lastChecked[p][1] > users[u].lastFailureAlert[p][1]


\* C35: between two users, and when the loop over the users is over, the
\* summary's notificationsSent is the number of notifications Telegram
\* accepted since the invocation started.
C35_SentCountsConfirmedDeliveries ==
  \A r \in Runs :
    run[r].pc = "users" => run[r].summary.notificationsSent = run[r].confirmed

\* C36: the failure of a provider is handled (its error recorded, a notice
\* attempted) only in a sweep whose fetch adapter raised.
C36_NoticeOnlyAfterFetchRaised ==
  \A r \in Runs :
    run[r].pc \in FailureHandling => run[r].error = "fetch failed"

\* C37: the classification of every notification being delivered and of
\* every Notification Record has a category other than OTHER.
C37_NotifiedCategoryIsNotOther ==
  /\ \A r \in Runs :
       run[r].pc \in {"deliver", "save"} => run[r].classification.category # CatOther
  /\ \A e \in emails : e.classification.category # CatOther


\* C39: the counts of every provider result, user result and summary are
\* ordered notificationsSent <= importantFound <= emailsScanned, and while a
\* provider sweep deals with its messages its emailsScanned is the length of
\* the list the fetch returned.
C39_CountsOrdered ==
  \A r \in Runs :
    LET CountsOrdered(counts) ==
          /\ counts.notificationsSent <= counts.importantFound
          /\ counts.importantFound <= counts.emailsScanned
    IN
    /\ CountsOrdered(run[r].providerResult)
    /\ CountsOrdered(run[r].result)
    /\ CountsOrdered(run[r].summary)
    /\ run[r].pc \in {"check", "deliver", "save", "advance"}
         => run[r].providerResult.emailsScanned = Len(run[r].batch)

\* A sweep fetched two messages, skipped the first as already notified and
\* found the second important.
C39_Witness ==
  /\ run[1].pc = "deliver" /\ Len(run[1].batch) = 2
  /\ hist[<<CurUser(1), CurProvider(1), run[1].batch[1]>>].cur = "skipped"
  /\ run[1].providerResult.emailsScanned = 2
  /\ run[1].providerResult.importantFound = 1


\* C34: when a provider sweep fetches less than DEFAULT_LOOKBACK_MINUTES
\* after the fetch of the last completed sweep of the same pair, its lower
\* bound is not later than the instant of that earlier fetch.
C34_NoGapBetweenWindows ==
  \A r \in Runs :
    (/\ run[r].pc \in {"check", "deliver", "save", "advance"}
     /\ fetchLog[CurUser(r)][CurProvider(r)] # NoDate
     /\ run[r].fetchedAt - fetchLog[CurUser(r)][CurProvider(r)][1] < DEFAULT_LOOKBACK_MINUTES)
      => run[r].since <= fetchLog[CurUser(r)][CurProvider(r)][1]


\* C40: a callback that looks its state up after a callback carrying the
\* same state has stored credentials is rejected; already so when the
\* callback that stored them has ended and no other callback is in progress.
C40_UsedStateIsRejected ==
  [][\A c \in Callbacks :
       (/\ oauth.cb[c].pc = "lookup"
        /\ \A d \in Callbacks \ {c} : oauth.cb[d].pc = "idle"
        /\ oauth'.cb[c].pc # "lookup"
        /\ oauth.stored[oauth.cb[c].state] >= 1)
         => oauth'.cb[c].pc = "idle"]_vars

====
